---- MODULE Spec2Model ----
(***************************************************************************)
(* A model of futures-lite's two polling adapters (src/src/lib.rs):        *)
(*   - stream::unfold / Unfold::poll_next, with the ready! macro;          *)
(*   - future::poll_fn / PollFn::poll.                                     *)
(*                                                                         *)
(* Encoding of Rust values:                                                *)
(*   Option<T>   None = << >>            Some(v)  = << v >>                *)
(*   Poll<T>     Pending = <<"Pending">> Ready(v) = <<"Ready", v>>         *)
(*   a panic of poll_next is the outcome <<"Panic">>                       *)
(***************************************************************************)
EXTENDS Integers, Sequences, FiniteSets

\* ---- bounds of the model ----
MaxSeed == 2
MaxItem == 1
MaxDelay == 2
MaxPolls == 6
MaxCloState == 1
MaxOut == 1
MaxCx == 1
MaxFnPolls == 4

Seeds == 0..MaxSeed
Items == 0..MaxItem

VARIABLES
    \* ---- Unfold<T, F, Fut> and its environment ----
    stepTab,   \* the pure step function: seed -> Option<(Item, T)>
    s0,        \* the seed handed to unfold()
    state,     \* Unfold.state : Option<T>
    fut,       \* Unfold.fut   : Option<Fut>
    ret,       \* what the last poll_next call did: a Poll, <<"Panic">> or <<"NotPolled">>
    inner,     \* result of fut.poll(cx) made by the last poll_next call (<<"NotPolled">> if none)
    f_calls,   \* the futures created by Unfold.f, in invocation order
    done,      \* the outputs of the step futures, in completion order
    yielded,   \* the items poll_next returned, in order
    rets,      \* every result poll_next returned, in order
    pnPend,    \* number of Pending results of poll_next since the last step was started
    \* ---- PollFn<F> and a directly called copy of the same closure ----
    cloTab,    \* the closure's code: captured state -> (result, next captured state)
    pf,        \* the PollFn struct
    direct,    \* the copy of the closure that is called directly
    pfRet,     \* result of the last PollFn::poll
    directRet, \* result of the last direct call
    pfPolls,   \* number of PollFn::poll calls
    pfSeen,    \* the contexts the closure inside PollFn was invoked with
    directSeen \* the contexts the directly called closure was invoked with

unfoldVars == <<stepTab, s0, state, fut, ret, inner, f_calls, done, yielded, rets, pnPend>>
pollFnVars == <<cloTab, pf, direct, pfRet, directRet, pfPolls, pfSeen, directSeen>>
vars == <<unfoldVars, pollFnVars>>

\* ---- Option and Poll ----
None == << >>
Some(v) == << v >>
Pending == <<"Pending">>
Ready(v) == <<"Ready", v>>
Panic == <<"Panic">>
NotPolled == <<"NotPolled">>
Last(s) == s[Len(s)]

\* ---- ready! ----
\* match e { Ready(t) => t, Pending => return Pending }
\* returns  = the enclosing function returns at once with .value
\* otherwise the expression evaluates to .value and control goes on
ready_noReturn(e) ==
    IF e[1] = "Ready" THEN [returns |-> FALSE, value |-> e[2]]
    ELSE [returns |-> FALSE, value |-> None]
ready(e) ==
    IF e[1] = "Ready" THEN [returns |-> FALSE, value |-> e[2]]
    ELSE [returns |-> TRUE, value |-> Pending]

\* ---- the step function and its futures ----
StepOutputs == {None} \cup {Some(<<i, n>>) : i \in Items, n \in Seeds}

\* F: FnMut(T) -> Fut.  The future remembers the seed it was made from and
\* how many more times it answers Pending before it resolves.
StepFn(seed, delay) == [seed |-> seed, left |-> delay]

\* Fut: Future<Output = Option<(Item, T)>>, polled once
FutPoll(fu) ==
    IF fu.left > 0 THEN [res |-> Pending, fut |-> [fu EXCEPT !.left = fu.left - 1]]
    ELSE [res |-> Ready(stepTab[fu.seed]), fut |-> fu]

\* Option::take
take_clone(opt) == [value |-> opt, left |-> opt]
take(opt) == [value |-> opt, left |-> None]

\* ---- stream::unfold ----
unfold(init) == [state |-> Some(init), fut |-> None]

\* ---- Unfold::poll_next ----
\* if let Some(state) = this.state.take() { this.fut = Some((this.f)(state)); }
\* created = the futures this.f made during the call
launch(this, delay) ==
    LET taken == take(this.state) IN
    IF taken.value # None
    THEN [this |-> [state |-> taken.left, fut |-> Some(StepFn(taken.value[1], delay))],
          created |-> <<StepFn(taken.value[1], delay)>>]
    ELSE [this |-> [state |-> taken.left, fut |-> this.fut], created |-> << >>]

\* this.fut = None;
clearFut_forgotten(this) == this
clearFut(this) == [this EXCEPT !.fut = None]

\* if let Some((item, next_state)) = step { .. } else { Poll::Ready(None) }
finish_swapped(this, step) ==
    IF step # None
    THEN [this |-> [this EXCEPT !.state = Some(step[1][1])], ret |-> Ready(Some(step[1][2]))]
    ELSE [this |-> this, ret |-> Ready(None)]
finish(this, step) ==
    IF step # None
    THEN [this |-> [this EXCEPT !.state = Some(step[1][2])], ret |-> Ready(Some(step[1][1]))]
    ELSE [this |-> this, ret |-> Ready(None)]

\* The body of poll_next on the struct this, delay being the behaviour of the
\* future that this.f creates if it is invoked.  Result: the struct afterwards,
\* the outcome, the futures created and the result of fut.poll(cx) (if made).
poll_next(this, delay) ==
    LET l == launch(this, delay) IN
    IF l.this.fut = None
    THEN \* .expect("Unfold must not be polled after it returned `Poll::Ready(None)`")
         [this |-> l.this, ret |-> Panic, created |-> l.created, inner |-> NotPolled]
    ELSE
      LET p == FutPoll(l.this.fut[1])
          polled == [l.this EXCEPT !.fut = Some(p.fut)]
          r == ready(p.res)
      IN  IF r.returns
          THEN [this |-> polled, ret |-> r.value, created |-> l.created, inner |-> p.res]
          ELSE LET fin == finish(clearFut(polled), r.value) IN
               [this |-> fin.this, ret |-> fin.ret, created |-> l.created, inner |-> p.res]

InitUnfold ==
    /\ stepTab \in [Seeds -> StepOutputs]
    /\ s0 \in Seeds
    /\ state = unfold(s0).state
    /\ fut = unfold(s0).fut
    /\ ret = NotPolled
    /\ inner = NotPolled
    /\ f_calls = << >>
    /\ done = << >>
    /\ yielded = << >>
    /\ rets = << >>
    /\ pnPend = 0

\* One call of poll_next: its effect on the stream and on the record of calls.
PollStep ==
    /\ \E delay \in 0..MaxDelay :
        LET o == poll_next([state |-> state, fut |-> fut], delay) IN
        /\ (state = None => delay = 0)
        /\ state' = o.this.state
        /\ fut' = o.this.fut
        /\ ret' = o.ret
        /\ inner' = o.inner
        /\ f_calls' = f_calls \o o.created
        /\ done' = IF o.inner # NotPolled /\ o.inner[1] = "Ready"
                   THEN Append(done, o.inner[2]) ELSE done
        /\ yielded' = IF o.ret[1] = "Ready" /\ o.ret[2] # None
                      THEN Append(yielded, o.ret[2][1]) ELSE yielded
        /\ rets' = Append(rets, o.ret)
        /\ pnPend' = IF o.ret = Pending
                     THEN (IF o.created # << >> THEN 1 ELSE pnPend + 1)
                     ELSE (IF o.created # << >> THEN 0 ELSE pnPend)
    /\ UNCHANGED <<stepTab, s0>>
    /\ UNCHANGED pollFnVars

PollNext ==
    /\ Len(rets) < MaxPolls
    /\ PollStep

\* ---- future::poll_fn ----
CloStates == 0..MaxCloState
Outs == 0..MaxOut
Contexts == 0..MaxCx
CloResults == {Pending} \cup {Ready(v) : v \in Outs}

\* F: FnMut(&mut Context<'_>) -> Poll<T>, called once on captured state c
CallClosure(c, cx) == [res |-> cloTab[c].res, next |-> cloTab[c].next]

poll_fn(f) == [f |-> f]

\* PollFn::poll: (&mut self.f)(cx)
PollFn_poll_twice(self, cx) ==
    LET r1 == CallClosure(self.f, cx)
        r == CallClosure(r1.next, cx)
    IN  [self |-> [self EXCEPT !.f = r.next], ret |-> r.res, calls |-> <<cx, cx>>]
PollFn_poll_fused(self, cx) ==
    LET r == CallClosure(self.f, cx)
    IN  IF pfRet # NotPolled /\ pfRet[1] = "Ready"
        THEN [self |-> self, ret |-> Pending, calls |-> << >>]
        ELSE [self |-> [self EXCEPT !.f = r.next], ret |-> r.res, calls |-> <<cx>>]
PollFn_poll(self, cx) ==
    LET r == CallClosure(self.f, cx)
    IN  [self |-> [self EXCEPT !.f = r.next], ret |-> r.res, calls |-> <<cx>>]

InitPollFn ==
    /\ cloTab \in [CloStates -> [res : CloResults, next : CloStates]]
    /\ \E c \in CloStates : pf = poll_fn(c) /\ direct = c
    /\ pfRet = NotPolled
    /\ directRet = NotPolled
    /\ pfPolls = 0
    /\ pfSeen = << >>
    /\ directSeen = << >>

\* The driver polls the PollFn, and the same closure is called directly
\* with the same context.
PollFnPoll ==
    /\ pfPolls < MaxFnPolls
    /\ \E cx \in Contexts :
        LET o == PollFn_poll(pf, cx)
            d == CallClosure(direct, cx)
        IN  /\ pf' = o.self
            /\ pfRet' = o.ret
            /\ pfSeen' = pfSeen \o o.calls
            /\ direct' = d.next
            /\ directRet' = d.res
            /\ directSeen' = Append(directSeen, cx)
    /\ pfPolls' = pfPolls + 1
    /\ UNCHANGED cloTab
    /\ UNCHANGED unfoldVars

\* ---- specifications ----
IdlePollFn ==
    /\ cloTab = [c \in CloStates |-> [res |-> Pending, next |-> c]]
    /\ pf = poll_fn(0) /\ direct = 0
    /\ pfRet = NotPolled /\ directRet = NotPolled
    /\ pfPolls = 0 /\ pfSeen = << >> /\ directSeen = << >>

IdleUnfold ==
    /\ stepTab = [s \in Seeds |-> None]
    /\ s0 = 0
    /\ state = unfold(0).state /\ fut = unfold(0).fut
    /\ ret = NotPolled /\ inner = NotPolled
    /\ f_calls = << >> /\ done = << >> /\ yielded = << >> /\ rets = << >>
    /\ pnPend = 0

NextUnfold == PollNext
NextPollFn == PollFnPoll

InitU == InitUnfold /\ IdlePollFn
InitP == InitPollFn /\ IdleUnfold

SpecUnfold == InitU /\ [][NextUnfold]_vars
SpecPollFn == InitP /\ [][NextPollFn]_vars

TypeOK ==
    /\ state \in {None} \cup {Some(s) : s \in Seeds}
    /\ ret \in {NotPolled, Panic, Pending, Ready(None)} \cup {Ready(Some(i)) : i \in Items}
    /\ pfPolls \in 0..MaxFnPolls

\* ---- what the step function prescribes ----
RECURSIVE ChainItems(_, _)
\* the first n items of the chain step(s)=Some((item_1,s1)), step(s1)=.. from seed s
ChainItems(s, n) ==
    IF n = 0 \/ stepTab[s] = None THEN << >>
    ELSE <<stepTab[s][1][1]>> \o ChainItems(stepTab[s][1][2], n - 1)

RECURSIVE ChainLength(_, _)
\* the number n of items before step(s_n) = None, or -1 if no None within fuel steps
ChainLength(s, fuel) ==
    IF stepTab[s] = None THEN 0
    ELSE IF fuel = 0 THEN -1
    ELSE LET rest == ChainLength(stepTab[s][1][2], fuel - 1)
         IN  IF rest = -1 THEN -1 ELSE rest + 1

Ended == \E i \in 1..Len(rets) : rets[i] = Ready(None)
PendingCount == Cardinality({i \in 1..Len(rets) : rets[i] = Pending})

\* C1: polled until it reports ended, unfold(s0, step) yields exactly the
\* items item_1..item_n of the chain of step from s0, in that order, whatever
\* the number of not-ready results of the step futures; before the end the
\* items yielded so far are the first items of that chain.
C1_YieldsExactlyTheChain ==
    /\ yielded = ChainItems(s0, Len(yielded))
    /\ Ended => /\ ChainLength(s0, MaxSeed + 1) = Len(yielded)
                /\ yielded = ChainItems(s0, MaxSeed + 1)

\* Scenario A scaled to the bound: seed 0, step n -> Some((n, n+1)) if n < 2
\* else None, with not-ready results on the way, has yielded [0, 1] and ended.
C1_Witness ==
    /\ s0 = 0
    /\ stepTab = [n \in Seeds |-> IF n < 2 THEN Some(<<n, n + 1>>) ELSE None]
    /\ ret = Ready(None)
    /\ yielded = <<0, 1>>
    /\ PendingCount >= 2

C3_LaterPollsReturnReadyNone ==
    \A i, j \in 1..Len(rets) : (i < j /\ rets[i] = Ready(None)) => rets[j] = Ready(None)

\* C4: between poll_next calls state and fut are never both populated, and
\* they are both empty only if a poll_next has already reported ended.
C4_ExactlyOneSlot ==
    /\ ~(state # None /\ fut # None)
    /\ (state = None /\ fut = None) => Ended

C4_Witness ==
    /\ Ended /\ state = None /\ fut = None
    /\ Len(yielded) >= 1 /\ PendingCount >= 1

RECURSIVE ItemsOf(_)
\* the items of the step outputs that are Some((item, next))
ItemsOf(outs) ==
    IF outs = << >> THEN << >>
    ELSE (IF outs[1] = None THEN << >> ELSE <<outs[1][1][1]>>) \o ItemsOf(Tail(outs))

\* C5: this.f is invoked with the next seed only when every step started
\* before has completed, at most one step is outstanding (it is the one in
\* fut), each step is started from the seed the step before it produced, and
\* the items are reported in the order in which the steps complete.
C5_StepsAreSequential ==
    /\ [](/\ Len(f_calls) - Len(done) \in {0, 1}
          /\ (Len(f_calls) = Len(done) + 1) <=> (fut # None)
          /\ \A i \in 1..Len(f_calls) - 1 :
                /\ done[i] # None
                /\ f_calls[i + 1].seed = done[i][1][2]
          /\ yielded = ItemsOf(done))
    /\ [][f_calls' # f_calls =>
            /\ Len(f_calls) = Len(done)
            /\ Len(f_calls') = Len(f_calls) + 1]_vars

C5_Witness ==
    /\ Len(f_calls) = 3 /\ Len(done) = 2 /\ fut # None
    /\ yielded = <<0, 1>>

\* C6: k not-ready results of a step's future cause exactly k not-ready
\* results of poll_next before that step's outcome is reported, and a poll_next
\* that returns not-ready does not advance the seed: it stores no next seed,
\* keeps the step in flight, and invokes this.f only if it entered with a seed
\* pending.
C6_NotReadyPassesThrough ==
    /\ [](/\ ret = Pending =>
                /\ state = None /\ fut # None
                /\ fut[1].seed = Last(f_calls).seed
                /\ pnPend + fut[1].left = Last(f_calls).left
          /\ (ret # NotPolled /\ ret[1] = "Ready") => pnPend = Last(f_calls).left)
    /\ [][ret' = Pending =>
            /\ done' = done /\ yielded' = yielded
            /\ (state = None => f_calls' = f_calls)
            /\ (state # None => Len(f_calls') = Len(f_calls) + 1)]_vars

\* Scenario B: the step future answered not ready once, poll_next returned not
\* ready once and then the item.
C6_Witness ==
    /\ Len(rets) = 2 /\ rets[1] = Pending
    /\ ret # Pending /\ ret[1] = "Ready" /\ ret[2] # None
    /\ Last(f_calls).left = 1 /\ pnPend = 1

\* C7: polling the PollFn built by poll_fn(f) and calling f directly with the
\* same contexts give the same result at every poll, leave the closure in the
\* same state and invoke it with the same contexts, also after a Ready.
C7_PollFnIsTheClosure ==
    /\ pfRet = directRet
    /\ pf.f = direct
    /\ pfSeen = directSeen

C7_Witness ==
    /\ pfPolls >= 3
    /\ pfRet # NotPolled /\ pfRet[1] = "Ready"
    /\ \E c \in CloStates : cloTab[c].res = Pending
    /\ pf.f # cloTab[pf.f].next

AlwaysPending == \A c \in CloStates : cloTab[c].res = Pending

\* C8: a PollFn whose closure always returns not-ready never reports ready,
\* and after n polls the closure has been invoked exactly n times.
C8_AlwaysPendingOncePerPoll ==
    AlwaysPending =>
        /\ pfRet \in {NotPolled, Pending}
        /\ Len(pfSeen) = pfPolls

C8_Witness == AlwaysPending /\ pfPolls = MaxFnPolls /\ pfRet = Pending

\* C9: if step(s0) = None and the first step future is ready on its first
\* poll, the first poll_next reports ended, leaves both slots empty, and the
\* stream yields no item.
C9_ImmediateNone ==
    (Len(rets) >= 1 /\ stepTab[s0] = None /\ f_calls[1].left = 0) =>
        /\ rets[1] = Ready(None)
        /\ yielded = << >>
        /\ Len(rets) = 1 => (state = None /\ fut = None)

C9_Witness ==
    /\ Len(rets) = 1 /\ stepTab[s0] = None /\ f_calls[1].left = 0
    /\ ret = Ready(None)

\* C10: ready! in poll_next.  If fut.poll(cx) is Pending, poll_next returns
\* Pending at once: fut is not cleared, no seed is stored, nothing is
\* reported, and the step in flight is kept, one poll older.  If it is
\* Ready(V), control continues with V: fut is cleared and the outcome is the
\* one V prescribes.
C10_ReadyMacro ==
    [][/\ inner' = Pending =>
            /\ ret' = Pending
            /\ state' = None
            /\ fut' # None
            /\ fut'[1].seed = Last(f_calls').seed
            /\ fut'[1].left = (IF state = None THEN fut[1].left
                               ELSE Last(f_calls').left) - 1
            /\ done' = done /\ yielded' = yielded
       /\ (inner' # NotPolled /\ inner' # Pending) =>
            /\ fut' = None
            /\ done' = Append(done, inner'[2])
            /\ inner'[2] = None => (ret' = Ready(None) /\ state' = None)
            /\ inner'[2] # None =>
                 (ret' = Ready(Some(inner'[2][1][1])) /\ state' = Some(inner'[2][1][2]))
      ]_vars

C10_Witness ==
    /\ Len(rets) >= 2
    /\ rets[Len(rets) - 1] = Pending
    /\ inner # NotPolled /\ inner[1] = "Ready" /\ inner[2] # None
    /\ ret = Ready(Some(inner[2][1][1]))

\* C12: this.f is invoked at most once per poll_next call and once per seed:
\* a call entered with a pending seed takes it, invokes this.f with exactly
\* that seed once and polls the new future in the same call; a call entered
\* with a step in flight or after the end does not invoke this.f; a call that
\* yields an item stores the next seed and launches nothing.
C12_OneInvocationPerSeed ==
    /\ [](/\ Len(f_calls) <= Len(yielded) + 1
          /\ Len(f_calls) >= 1 => f_calls[1].seed = s0)
    /\ [][(/\ (state # None =>
                /\ Len(f_calls') = Len(f_calls) + 1
                /\ SubSeq(f_calls', 1, Len(f_calls)) = f_calls
                /\ Last(f_calls').seed = state[1]
                /\ inner' # NotPolled)
           /\ (state = None => f_calls' = f_calls)
           /\ ((ret' # Pending /\ ret' # Panic /\ ret'[2] # None) =>
                /\ state' # None /\ fut' = None
                /\ Len(f_calls') = Len(yielded')))
          ]_vars

C12_Witness ==
    /\ Len(f_calls) = 2 /\ Len(yielded) = 2
    /\ PendingCount >= 1
    /\ state # None /\ fut = None

\* C13: a poll_next entered with a step in flight whose future is not ready
\* returns not-ready, keeps that same step in flight, leaves state empty,
\* consumes no seed and does not invoke this.f.
C13_NotReadyInFlightFrame ==
    [][(fut # None /\ inner' = Pending) =>
            /\ ret' = Pending
            /\ state = None /\ state' = None
            /\ fut' # None
            /\ fut'[1].seed = fut[1].seed
            /\ fut'[1].left = fut[1].left - 1
            /\ f_calls' = f_calls
            /\ done' = done /\ yielded' = yielded
      ]_vars

C13_Witness ==
    /\ Len(rets) >= 2
    /\ rets[Len(rets) - 1] = Pending /\ ret = Pending
    /\ Len(f_calls) = 1
    /\ fut # None /\ fut[1].left = 0

\* C14: whenever the step in flight completes during poll_next, fut is
\* cleared whatever the output; on Some((item, next_seed)) state becomes
\* Some(next_seed) and poll_next reports that item; on None both slots are
\* empty and poll_next reports ended.
C14_StepCompletion ==
    [][Len(done') = Len(done) + 1 =>
            (LET out == Last(done') IN
             /\ out = stepTab[Last(f_calls').seed]
             /\ fut' = None
             /\ (out # None =>
                  /\ state' = Some(out[1][2])
                  /\ ret' = Ready(Some(out[1][1]))
                  /\ yielded' = Append(yielded, out[1][1]))
             /\ (out = None =>
                  /\ state' = None
                  /\ ret' = Ready(None)
                  /\ yielded' = yielded))
      ]_vars

C14_Witness ==
    /\ Len(done) = 3
    /\ done[1] # None /\ done[2] # None /\ done[3] = None
    /\ done[1][1][1] # done[2][1][1]
    /\ ret = Ready(None)

\* C15: once poll_next has reported ended, the stream stays ended: both slots
\* are empty and stay empty, and a further poll_next invokes this.f no more
\* and polls no step future.
C15_EndedIsTerminal ==
    /\ [](Ended => (state = None /\ fut = None))
    /\ [][Ended =>
            /\ Ended'
            /\ state' = None /\ fut' = None
            /\ f_calls' = f_calls
            /\ done' = done /\ yielded' = yielded
            /\ inner' = NotPolled
         ]_vars

C15_Witness ==
    /\ Len(rets) >= 3
    /\ rets[Len(rets) - 2] = Ready(None)
    /\ rets[Len(rets) - 1] = Panic /\ ret = Panic
    /\ state = None /\ fut = None

RECURSIVE PollsOfCompleted(_)
\* the polls the completed step futures took: the not-ready ones and the last
PollsOfCompleted(n) ==
    IF n = 0 THEN 0 ELSE PollsOfCompleted(n - 1) + f_calls[n].left + 1

\* the polls of step futures made so far, as the futures themselves count them
FutPollsMade ==
    PollsOfCompleted(Len(done))
    + (IF fut # None THEN Last(f_calls).left - fut[1].left ELSE 0)

PanicCount == Cardinality({i \in 1..Len(rets) : rets[i] = Panic})

\* C16: poll_next returns not-ready exactly when the poll of the step future
\* made in that call returned not-ready, and every poll_next call that does
\* not panic polls the step future exactly once.
C16_PendingOnlyFromInner ==
    /\ (ret = Pending) <=> (inner = Pending)
    /\ Len(rets) >= 1 => ((ret = Panic) <=> (inner = NotPolled))
    /\ FutPollsMade = Len(rets) - PanicCount

C16_Witness ==
    /\ Len(rets) = MaxPolls
    /\ PendingCount >= 2 /\ Len(yielded) >= 1 /\ PanicCount >= 1

\* C18: the number of invocations of this.f is the number of items yielded
\* when a seed is pending, and one more when a step is in flight or the
\* stream has ended.
C18_InvocationCount ==
    /\ state # None => Len(f_calls) = Len(yielded)
    /\ (fut # None \/ Ended) => Len(f_calls) = Len(yielded) + 1

C18_Witness ==
    /\ Ended /\ Len(yielded) = 2 /\ Len(f_calls) = 3
    /\ PendingCount >= 1

\* ---- polling to completion ----
RECURSIVE ChainSeeds(_, _)
\* the seeds this.f is invoked with when the stream is polled from seed s
ChainSeeds(s, fuel) ==
    IF stepTab[s] = None \/ fuel = 0 THEN {s}
    ELSE {s} \cup ChainSeeds(stepTab[s][1][2], fuel - 1)

\* A chain that reaches None passes through each seed at most once, and each
\* step future answers within MaxDelay + 1 polls.
LivePolls == (MaxSeed + 1) * (MaxDelay + 1)

\* unfold(s0, step) for the step functions whose chain from s0 reaches None;
\* poll_next reads step only at the seeds of that chain, the other entries
\* are fixed to None.
InitLive ==
    /\ InitU
    /\ ChainLength(s0, MaxSeed + 1) # -1
    /\ \A s \in Seeds \ ChainSeeds(s0, MaxSeed + 1) : stepTab[s] = None

\* The driver polls again as long as the stream has not reported ended.
DrivePoll ==
    /\ ~Ended
    /\ Len(rets) < LivePolls
    /\ PollStep

NextLive == DrivePoll

SpecLive == InitLive /\ [][NextLive]_vars /\ WF_vars(DrivePoll)

\* C17: if every step future becomes ready after finitely many polls and the
\* chain of seeds reaches a seed whose step yields None, then under repeated
\* polling the stream eventually reports ended, and it does so within the
\* polls the chain and the futures need.
C17_EventuallyEnded ==
    /\ <>Ended
    /\ [](~Ended => Len(rets) < LivePolls)

\* the longest run: every seed is visited and every future takes MaxDelay + 1 polls
C17_Witness ==
    /\ Ended
    /\ Len(rets) = LivePolls
    /\ Len(yielded) = MaxSeed
====
